---- MODULE Spec2Model ----
(***************************************************************************)
(* A model of import_export/widgets.py: the converters between the import  *)
(* / export text of a value and its python value.  The scalar widgets and  *)
(* ManyToManyWidget are pure functions of their argument (and the stored   *)
(* rows); ForeignKeyWidget.clean is modelled statement by statement,       *)
(* because it reads and writes the process-wide cache and several calls    *)
(* may be in flight at once.                                               *)
(*                                                                         *)
(* Text is a sequence of one-character strings.  A python value is a       *)
(* record tagged by "kind": none, text, int, decimal, bool, date,          *)
(* datetime, entity (a model instance), queryset, raise (an exception      *)
(* leaving the call).                                                      *)
(***************************************************************************)
EXTENDS Integers, Sequences, FiniteSets, TLC

\* Longest import text tried.
MaxLen == 2

\* Number of clean() calls started in one run.
MaxCalls == 2

\* Characters of the texts given to the scalar widgets and ForeignKeyWidget.
Chars == {"1", " ", "a"}

\* Characters of the texts given to ManyToManyWidget.
ListChars == Chars \cup {","}

DigitChars == {"0", "1", "2", "3", "4", "5", "6", "7", "8", "9"}

SeqsUpTo(S, n) == UNION {[1..k -> S] : k \in 0..n}

Texts == SeqsUpTo(Chars, MaxLen)

ListTexts == SeqsUpTo(ListChars, MaxLen)

---------------------------------------------------------------------------
\* Python values.

None == [kind |-> "none"]

Text(s) == [kind |-> "text", text |-> s]

Bool(b) == [kind |-> "bool", b |-> b]

Obj(e) == [kind |-> "entity", e |-> e]

QuerySet(es) == [kind |-> "queryset", items |-> es]

Raise(exc) == [kind |-> "raise", exc |-> exc]

\* The import values: None, "" and every text within the bound.
Values == {None} \cup {Text(s) : s \in Texts}

ListValues == {None} \cup {Text(s) : s \in ListTexts}

\* A mistaken truth test: only None is false, the empty text is true.
TruthyNotNone(v) == v.kind # "none"

\* Python's truth value of the values the widgets test: None and "" are
\* false, a non-empty text and a model instance are true.
Truthy(v) ==
    CASE v.kind = "none" -> FALSE
      [] v.kind = "text" -> Len(v.text) > 0
      [] OTHER -> TRUE

---------------------------------------------------------------------------
\* Text helpers.

RECURSIVE RemoveSpaces(_)
\* pk.replace(" ", "")
RemoveSpaces(s) ==
    IF s = <<>> THEN <<>>
    ELSE IF Head(s) = " " THEN RemoveSpaces(Tail(s))
    ELSE <<Head(s)>> \o RemoveSpaces(Tail(s))

RECURSIVE LStrip(_)
LStrip(s) ==
    IF s # <<>> /\ Head(s) = " " THEN LStrip(Tail(s)) ELSE s

RECURSIVE RStrip(_)
RStrip(s) ==
    IF s # <<>> /\ s[Len(s)] = " " THEN RStrip(SubSeq(s, 1, Len(s) - 1)) ELSE s

Strip(s) == RStrip(LStrip(s))

DigitVal(c) ==
    CASE c = "0" -> 0 [] c = "1" -> 1 [] c = "2" -> 2 [] c = "3" -> 3
      [] c = "4" -> 4 [] c = "5" -> 5 [] c = "6" -> 6 [] c = "7" -> 7
      [] c = "8" -> 8 [] c = "9" -> 9

RECURSIVE DigitsValue(_)
DigitsValue(s) ==
    IF s = <<>> THEN 0
    ELSE 10 * DigitsValue(SubSeq(s, 1, Len(s) - 1)) + DigitVal(s[Len(s)])

IsDigits(s) == Len(s) > 0 /\ \A i \in 1..Len(s) : s[i] \in DigitChars

\* int(text): surrounding blanks are ignored, what is left must be digits.
ParseInt(s) ==
    LET t == Strip(s)
    IN  IF IsDigits(t) THEN [ok |-> TRUE, n |-> DigitsValue(t)]
        ELSE [ok |-> FALSE, n |-> 0]

RECURSIVE Split(_, _)
\* value.split(sep): the pieces between the separators, none trimmed, empty
\* pieces kept.
Split(s, sep) ==
    IF \A i \in 1..Len(s) : s[i] # sep THEN <<s>>
    ELSE LET i == CHOOSE k \in 1..Len(s) :
                      s[k] = sep /\ \A j \in 1..(k - 1) : s[j] # sep
         IN  <<SubSeq(s, 1, i - 1)>> \o Split(SubSeq(s, i + 1, Len(s)), sep)

RECURSIVE SplitTrimmed(_, _)
\* A split that also trims each piece.
SplitTrimmed(s, sep) ==
    IF \A i \in 1..Len(s) : s[i] # sep THEN <<Strip(s)>>
    ELSE LET i == CHOOSE k \in 1..Len(s) :
                      s[k] = sep /\ \A j \in 1..(k - 1) : s[j] # sep
         IN  <<Strip(SubSeq(s, 1, i - 1))>>
                 \o SplitTrimmed(SubSeq(s, i + 1, Len(s)), sep)

\* A split on commas that trims the ids.
SplitIdsTrimmed(s) == SplitTrimmed(s, ",")

\* ids = value.split(",")
SplitIds(s) == Split(s, ",")

Range(f) == {f[i] : i \in DOMAIN f}

\* A run of 1 to n digits whose value lies in lo..hi.
IsNumberIn(s, n, lo, hi) ==
    IsDigits(s) /\ Len(s) <= n /\ DigitsValue(s) >= lo /\ DigitsValue(s) <= hi

---------------------------------------------------------------------------
\* The scalar widgets.

\* Widget.clean, inherited by CharWidget: the value itself.
WidgetClean(value) == value

\* An IntegerWidget.clean without the test for an absent value.
IntegerWidgetCleanUnguarded(value) ==
    IF value.kind = "text" /\ ParseInt(value.text).ok
    THEN [kind |-> "int", n |-> ParseInt(value.text).n]
    ELSE Raise("ValueError")

IntegerWidgetClean(value) ==
    IF ~Truthy(value) THEN None
    ELSE IF ParseInt(value.text).ok
    THEN [kind |-> "int", n |-> ParseInt(value.text).n]
    ELSE Raise("ValueError")

\* Decimal(text): surrounding blanks ignored, digits with an optional
\* fraction (signs, exponents and the special values need characters the
\* texts here do not have).
ParseDecimal(s) ==
    LET parts == Split(Strip(s), ".")
    IN  IF Len(parts) = 1 /\ IsDigits(parts[1])
        THEN [kind |-> "decimal", int |-> parts[1], frac |-> <<>>]
        ELSE IF /\ Len(parts) = 2
                /\ Len(parts[1]) + Len(parts[2]) > 0
                /\ \A i \in 1..2 : parts[i] = <<>> \/ IsDigits(parts[i])
        THEN [kind |-> "decimal", int |-> parts[1], frac |-> parts[2]]
        ELSE Raise("InvalidOperation")

DecimalWidgetClean(value) ==
    IF ~Truthy(value) THEN None ELSE ParseDecimal(value.text)

\* BooleanWidget.TRUE_VALUES = ["1", 1]; the import values here are texts.
TRUE_VALUES == {Text(<<"1">>)}

BooleanWidgetClean(value) ==
    IF value \in TRUE_VALUES THEN Bool(TRUE) ELSE Bool(FALSE)

\* datetime.strptime(text, "%Y-%m-%d"): four digits of year, a month, a day
\* of the month.
ParseDate(s) ==
    LET parts == Split(s, "-")
    IN  IF /\ Len(parts) = 3
           /\ IsDigits(parts[1]) /\ Len(parts[1]) = 4
           /\ IsNumberIn(parts[2], 2, 1, 12)
           /\ IsNumberIn(parts[3], 2, 1, 31)
        THEN [kind |-> "date", y |-> DigitsValue(parts[1]),
              m |-> DigitsValue(parts[2]), d |-> DigitsValue(parts[3])]
        ELSE Raise("ValueError")

DateWidgetClean(value) ==
    IF ~Truthy(value) THEN None ELSE ParseDate(value.text)

\* datetime.strptime(text, "%Y-%m-%d %H:%M:%S")
ParseDateTime(s) ==
    LET halves == Split(s, " ")
        date == ParseDate(halves[1])
        time == Split(halves[2], ":")
    IN  IF Len(halves) # 2 THEN Raise("ValueError")
        ELSE IF /\ date.kind = "date"
                /\ Len(time) = 3
                /\ IsNumberIn(time[1], 2, 0, 23)
                /\ IsNumberIn(time[2], 2, 0, 59)
                /\ IsNumberIn(time[3], 2, 0, 61)
        THEN [kind |-> "datetime", date |-> date, h |-> DigitsValue(time[1]),
              mi |-> DigitsValue(time[2]), s |-> DigitsValue(time[3])]
        ELSE Raise("ValueError")

DateTimeWidgetClean(value) ==
    IF ~Truthy(value) THEN None ELSE ParseDateTime(value.text)

ScalarWidgets == {"char", "integer", "decimal", "boolean", "date", "datetime"}

ScalarClean(w, value) ==
    CASE w = "char" -> WidgetClean(value)
      [] w = "integer" -> IntegerWidgetClean(value)
      [] w = "decimal" -> DecimalWidgetClean(value)
      [] w = "boolean" -> BooleanWidgetClean(value)
      [] w = "date" -> DateWidgetClean(value)
      [] w = "datetime" -> DateTimeWidgetClean(value)

---------------------------------------------------------------------------
\* The stored rows of self.model, and the lookups the widgets make on them.

\* The rows a run may start with: any subset of these.
Rows ==
    { [pk |-> 1, title |-> <<"a">>],
      [pk |-> 11, title |-> <<"a", " ">>],
      [pk |-> 111, title |-> <<"a">>] }

\* self.model.objects.get(pk=pk): the row, DoesNotExist, or ValueError when
\* the text is no integer key.
GetByPk(rows, pk) ==
    LET k == ParseInt(pk)
    IN  IF ~k.ok THEN Raise("ValueError")
        ELSE IF \E e \in rows : e.pk = k.n
        THEN Obj(CHOOSE e \in rows : e.pk = k.n)
        ELSE Raise("DoesNotExist")

\* self.model.objects.get(title=pk)
GetByTitle(rows, title) ==
    LET found == {e \in rows : e.title = title}
    IN  IF found = {} THEN Raise("DoesNotExist")
        ELSE IF Cardinality(found) = 1 THEN Obj(CHOOSE e \in found : TRUE)
        ELSE Raise("MultipleObjectsReturned")

\* self.model.objects.filter(pk__in=ids): the rows whose key one of the ids
\* denotes.
FilterByPks(rows, ids) ==
    {e \in rows : \E t \in ids : ParseInt(t).ok /\ ParseInt(t).n = e.pk}

\* ManyToManyWidget.clean: the ids handed to the filter, and the result.
ManyToManyWidgetClean(rows, value) ==
    IF ~Truthy(value)
    THEN [keys |-> {}, result |-> QuerySet({})]
    ELSE LET ids == Range(SplitIds(value.text))
         IN  [keys |-> ids, result |-> QuerySet(FilterByPks(rows, ids))]

---------------------------------------------------------------------------
\* ForeignKeyWidget.clean's helpers.

\* '%s_%s_%s' % (app_label, module_name, pk.replace(" ", ""))
CacheKey(pk) == <<"app", "_", "model", "_">> \o RemoveSpaces(pk)

CacheKeys == {CacheKey(s) : s \in Texts}

\* cache.get(key): the stored value, None when nothing is stored.
CacheGet(c, key) == IF c[key].kind = "absent" THEN None ELSE c[key]

\* A cache.set that stores nothing.
CacheSetDropped(c, key, value) == c

\* cache.set(key, value)
CacheSet(c, key, value) == [c EXCEPT ![key] = value]

\* A title lookup with the identifier as normalised for the cache key.
TitleArgNormalized(pk) == RemoveSpaces(pk)

\* The value of get(title=pk): the identifier as given.
TitleArg(pk) == pk

---------------------------------------------------------------------------
\* The state.

VARIABLES
    storage,    \* the rows of self.model
    hasTitle,   \* whether self.model has a field named title
    cache,      \* django.core.cache.cache: key -> stored value
    call,       \* per caller: the clean() call it is in, or has finished
    ncalls,     \* calls started
    limit,      \* calls the run may start
    log,        \* history: the ForeignKeyWidget.clean calls that have ended
    written     \* history: per cache key, the values ever set under it

vars == <<storage, hasTitle, cache, call, ncalls, limit, log, written>>

\* The callers; a session runs its calls one after the other, as p1.
Procs == {"p1", "p2"}

SessionProcs == {"p1"}

Absent == [kind |-> "absent"]

\* No call yet.
Idle ==
    [pc |-> "idle", seq |-> 0, widget |-> "none", arg |-> None, obj |-> None,
     result |-> None, path |-> "none", gets |-> 0, sets |-> 0, queries |-> 0,
     titleq |-> 0, keys |-> {}, seen |-> {}]

\* A call of widget w's clean(value), as it starts.
Started(w, value) ==
    [Idle EXCEPT !.pc = "start", !.seq = ncalls + 1, !.widget = w,
                 !.arg = value, !.seen = log]

\* Any storage, an empty cache, no call yet.
Fresh ==
    /\ storage \in SUBSET Rows
    /\ hasTitle \in BOOLEAN
    /\ cache = [k \in CacheKeys |-> Absent]
    /\ call = [p \in Procs |-> Idle]
    /\ ncalls = 0
    /\ log = {}
    /\ written = [k \in CacheKeys |-> {}]

Init == Fresh /\ limit = MaxCalls

CanCall(p) == call[p].pc \in {"idle", "done"} /\ ncalls < limit

\* The entry a finished ForeignKeyWidget.clean call leaves in the history.
LogEntry(c) == [id |-> c.arg.text, path |-> c.path, res |-> c.result]

\* A scalar widget's clean(value): one step, no collaborator touched.
CleanScalar(p) ==
    /\ CanCall(p)
    /\ \E w \in ScalarWidgets, value \in Values :
         call' = [call EXCEPT ![p] =
                    [Started(w, value) EXCEPT !.pc = "done",
                                              !.result = ScalarClean(w, value)]]
    /\ ncalls' = ncalls + 1
    /\ UNCHANGED <<storage, hasTitle, cache, limit, log, written>>

\* ManyToManyWidget.clean(value): one batch query, unless the value is absent.
CleanManyToMany(p) ==
    /\ CanCall(p)
    /\ \E value \in ListValues :
         LET r == ManyToManyWidgetClean(storage, value)
         IN  call' = [call EXCEPT ![p] =
                        [Started("m2m", value) EXCEPT
                            !.pc = "done", !.result = r.result, !.keys = r.keys,
                            !.queries = IF Truthy(value) THEN 1 ELSE 0]]
    /\ ncalls' = ncalls + 1
    /\ UNCHANGED <<storage, hasTitle, cache, limit, log, written>>

\* ForeignKeyWidget.clean(value), to the test of pk: an absent value returns
\* None at once, any other goes on to the cache.
FKCleanBegin(p) ==
    /\ CanCall(p)
    /\ \E value \in Values :
         call' = [call EXCEPT ![p] =
                    IF Truthy(WidgetClean(value))
                    THEN [Started("fk", value) EXCEPT !.pc = "cache_get"]
                    ELSE [Started("fk", value) EXCEPT !.pc = "done",
                                                      !.result = None]]
    /\ ncalls' = ncalls + 1
    /\ UNCHANGED <<storage, hasTitle, cache, limit, log, written>>

\* obj = cache.get(cache_key); if obj: return obj
FKCacheGet(p) ==
    LET c == call[p]
        obj == CacheGet(cache, CacheKey(c.arg.text))
        hit == [c EXCEPT !.pc = "done", !.obj = obj, !.result = obj,
                         !.path = "hit", !.gets = c.gets + 1]
    IN  /\ c.pc = "cache_get"
        /\ IF Truthy(obj)
           THEN /\ call' = [call EXCEPT ![p] = hit]
                /\ log' = log \cup {LogEntry(hit)}
           ELSE /\ call' = [call EXCEPT ![p] =
                              [c EXCEPT !.pc = "pk_lookup", !.obj = obj,
                                        !.gets = c.gets + 1]]
                /\ log' = log
        /\ UNCHANGED <<storage, hasTitle, cache, ncalls, limit, written>>

\* obj = self.model.objects.get(pk=pk), and the handler its exception picks:
\* ValueError goes on to the title, DoesNotExist leaves obj as it was.
FKPkLookup(p) ==
    LET c == call[p]
        r == GetByPk(storage, c.arg.text)
        q == [c EXCEPT !.queries = c.queries + 1]
    IN  /\ c.pc = "pk_lookup"
        /\ call' = [call EXCEPT ![p] =
                      CASE r.kind = "entity" ->
                             [q EXCEPT !.pc = "cache_set", !.obj = r,
                                       !.path = "pk_found"]
                        [] r = Raise("ValueError") ->
                             [q EXCEPT !.pc = "title_lookup"]
                        [] r = Raise("DoesNotExist") ->
                             [q EXCEPT !.pc = "cache_set",
                                       !.path = "pk_notfound"]]
        /\ UNCHANGED <<storage, hasTitle, cache, ncalls, limit, log, written>>

\* self.model._meta.get_field('title'); obj = self.model.objects.get(title=pk)
\* inside the ValueError handler: FieldDoesNotExist is passed over, any
\* exception of the lookup leaves clean().
FKTitleLookup(p) ==
    LET c == call[p]
        r == GetByTitle(storage, TitleArg(c.arg.text))
        q == [c EXCEPT !.queries = c.queries + 1, !.titleq = c.titleq + 1]
        raised == [q EXCEPT !.pc = "done", !.result = r,
                            !.path = "title_raised"]
    IN  /\ c.pc = "title_lookup"
        /\ IF ~hasTitle
           THEN /\ call' = [call EXCEPT ![p] =
                              [c EXCEPT !.pc = "cache_set",
                                        !.path = "no_title_field"]]
                /\ log' = log
           ELSE IF r.kind = "entity"
           THEN /\ call' = [call EXCEPT ![p] =
                              [q EXCEPT !.pc = "cache_set", !.obj = r,
                                        !.path = "title_found"]]
                /\ log' = log
           ELSE /\ call' = [call EXCEPT ![p] = raised]
                /\ log' = log \cup {LogEntry(raised)}
        /\ UNCHANGED <<storage, hasTitle, cache, ncalls, limit, written>>

\* cache.set(cache_key, obj); return obj
FKCacheSet(p) ==
    LET c == call[p]
        key == CacheKey(c.arg.text)
        ret == [c EXCEPT !.pc = "done", !.result = c.obj, !.sets = c.sets + 1]
    IN  /\ c.pc = "cache_set"
        /\ cache' = CacheSet(cache, key, c.obj)
        /\ written' = [written EXCEPT ![key] = @ \cup {c.obj}]
        /\ call' = [call EXCEPT ![p] = ret]
        /\ log' = log \cup {LogEntry(ret)}
        /\ UNCHANGED <<storage, hasTitle, ncalls, limit>>

\* A step of a ForeignKeyWidget.clean call.
FKStep(p) ==
    \/ FKCleanBegin(p)
    \/ FKCacheGet(p)
    \/ FKPkLookup(p)
    \/ FKTitleLookup(p)
    \/ FKCacheSet(p)

\* One import session resolving references: its ForeignKeyWidget.clean calls
\* run one after the other.
Next == \E p \in SessionProcs : FKStep(p)

Spec == Init /\ [][Next]_vars

\* Callers resolving references side by side on the one cache.
NextConcurrent == \E p \in Procs : FKStep(p)

SpecConcurrent == Init /\ [][NextConcurrent]_vars

\* Every widget's clean applied to every import value on every storage, one
\* call a run.
InitConverters == Fresh /\ limit = 1

NextConverters ==
    \E p \in SessionProcs :
        \/ CleanScalar(p)
        \/ CleanManyToMany(p)
        \/ FKStep(p)

SpecConverters == InitConverters /\ [][NextConverters]_vars

---------------------------------------------------------------------------
\* Properties.

\* The import value is absent: None or the empty text.
IsAbsent(v) == v = None \/ v = Text(<<>>)

\* p has finished a call of widget w.
Done(p, w) == call[p].pc = "done" /\ call[p].widget = w

\* p has finished a ForeignKeyWidget.clean call of a non-empty identifier.
Resolved(p) == Done(p, "fk") /\ ~IsAbsent(call[p].arg)

\* No stored row matches the identifier, by key or by title.
NoEntityMatches(id) ==
    LET r == GetByPk(storage, id)
    IN  \/ r = Raise("DoesNotExist")
        \/ /\ r = Raise("ValueError")
           /\ ~hasTitle \/ GetByTitle(storage, id) = Raise("DoesNotExist")

\* What clean(id) comes to on an empty cache: the row found by key, else,
\* for a malformed key and a model with a title, what the title lookup
\* gives, else None.
FreshOutcome(id) ==
    LET r == GetByPk(storage, id)
    IN  IF r.kind = "entity" THEN r
        ELSE IF r = Raise("ValueError") /\ hasTitle
        THEN GetByTitle(storage, id)
        ELSE None

\* The pieces of a text between its commas, stated by position: a piece
\* starts at the text's start or after a comma, ends at the text's end or
\* before a comma, and holds no comma.
PiecesOf(s) ==
    {SubSeq(s, x[1], x[2]) :
        x \in {y \in (1..(Len(s) + 1)) \X (0..Len(s)) :
                 /\ y[2] >= y[1] - 1
                 /\ y[1] = 1 \/ s[y[1] - 1] = ","
                 /\ y[2] = Len(s) \/ s[y[2] + 1] = ","
                 /\ \A k \in y[1]..y[2] : s[k] # ","}}

\* C1: once a clean(id) of an identifier no row matches has ended, a repeated
\* clean(id) on the unchanged storage makes no storage query.
C1_NegativeCaching ==
    \A p \in Procs :
        ( /\ Resolved(p)
          /\ NoEntityMatches(call[p].arg.text)
          /\ \E r \in call[p].seen : r.id = call[p].arg.text )
        => call[p].queries = 0

\* C2: once a clean(id) has missed the cache, found row E by primary key and
\* returned it, every later clean(id) returns E and makes no storage query.
C2_PositiveCacheHit ==
    \A p \in Procs :
        Resolved(p) =>
            \A r \in call[p].seen :
                (r.id = call[p].arg.text /\ r.path = "pk_found")
                => (call[p].result = r.res /\ call[p].queries = 0)

\* A second clean(id) answered from the cache after the first found the row
\* by primary key.
C2_Witness ==
    \E p \in Procs :
        /\ Resolved(p)
        /\ call[p].path = "hit"
        /\ \E r \in call[p].seen :
              r.id = call[p].arg.text /\ r.path = "pk_found"

\* C3: a clean(id) that misses the cache, for an identifier no row matches
\* (key not found; key malformed and title not found; key malformed and no
\* title field), returns None and raises nothing.
C3_NoMatchYieldsNone ==
    \A p \in Procs :
        ( /\ Resolved(p)
          /\ call[p].path # "hit"
          /\ NoEntityMatches(call[p].arg.text) )
        => call[p].result = None

\* C4: on a cache miss, a malformed key, a model with a title field and
\* exactly one row titled as the identifier was given, clean(id) returns that
\* row; and the title is looked up only after a malformed key, never after a
\* key that was not found.
C4_FallbackByTitle ==
    \A p \in Procs :
        LET c == call[p]
            titled == {e \in storage : e.title = c.arg.text}
        IN  (Resolved(p) /\ c.path # "hit") =>
              /\ ( /\ GetByPk(storage, c.arg.text) = Raise("ValueError")
                   /\ hasTitle
                   /\ Cardinality(titled) = 1 )
                 => c.result = Obj(CHOOSE e \in titled : TRUE)
              /\ c.titleq > 0
                 => GetByPk(storage, c.arg.text) = Raise("ValueError")

\* A call resolved by title, for an identifier holding a blank.
C4_Witness ==
    \E p \in Procs :
        /\ Resolved(p)
        /\ call[p].path = "title_found"
        /\ call[p].result.e.title = call[p].arg.text
        /\ RemoveSpaces(call[p].arg.text) # call[p].arg.text

\* C5: clean("") and clean(None) return None for the Integer, Decimal,
\* Boolean, Date, DateTime and ForeignKey widgets.
C5_AbsentYieldsNone ==
    \A p \in Procs :
        ( /\ call[p].pc = "done"
          /\ call[p].widget \in
                {"integer", "decimal", "boolean", "date", "datetime", "fk"}
          /\ IsAbsent(call[p].arg) )
        => call[p].result = None

\* C5, amended: clean("") and clean(None) return None for the Integer,
\* Decimal, Date, DateTime and ForeignKey widgets; the Boolean widget returns
\* False for them.
C5_AbsentYieldsNoneButBoolean ==
    \A p \in Procs :
        (call[p].pc = "done" /\ IsAbsent(call[p].arg)) =>
            /\ call[p].widget \in {"integer", "decimal", "date", "datetime", "fk"}
               => call[p].result = None
            /\ call[p].widget = "boolean" => call[p].result = Bool(FALSE)

\* IntegerWidget.clean("") has returned None.
C5_Witness ==
    \E p \in Procs :
        /\ Done(p, "integer")
        /\ call[p].arg = Text(<<>>)
        /\ call[p].result = None

C7_WritesValueEquivalent ==
    \A k \in CacheKeys : Cardinality(written[k]) <= 1

\* C8: every clean(id) of a non-empty identifier that misses the cache writes
\* the value it resolved to under the computed key before it ends, whatever
\* the lookups came to (key found, key not found, title found, title not
\* found, no title field); a call that hits the cache writes nothing.
C8_CacheWriteOnEveryMiss ==
    \A p \in Procs :
        (Resolved(p) /\ call[p].result # Raise("MultipleObjectsReturned")) =>
            IF call[p].path = "hit"
            THEN call[p].sets = 0
            ELSE /\ call[p].sets = 1
                 /\ call[p].result \in written[CacheKey(call[p].arg.text)]

\* C9: ForeignKeyWidget.clean of an absent value returns None with no cache
\* get, no cache set and no storage query: cache and storage are unchanged.
C9_AbsentTouchesNothing ==
    [][\A p \in Procs :
         ( /\ call'[p].seq # call[p].seq
           /\ call'[p].widget = "fk"
           /\ IsAbsent(call'[p].arg) )
         => /\ call'[p].pc = "done"
            /\ call'[p].result = None
            /\ call'[p].gets = 0 /\ call'[p].sets = 0
            /\ call'[p].queries = 0
            /\ cache' = cache /\ written' = written
            /\ storage' = storage /\ hasTitle' = hasTitle]_vars

\* A clean of an absent value has returned with the cache holding an entry.
C9_Witness ==
    \E p \in Procs :
        /\ Done(p, "fk")
        /\ IsAbsent(call[p].arg)
        /\ \E k \in CacheKeys : cache[k] # Absent

\* C10: whatever clean calls came before, clean(id) comes to what it comes to
\* on an empty cache.
C10_CacheTransparency ==
    \A p \in Procs :
        Resolved(p) => call[p].result = FreshOutcome(call[p].arg.text)

====
